---- MODULE Spec2Model ----
(***************************************************************************)
(* Analytics pipeline of Business-Analytics-Reports: load the price table, *)
(* derive indicator columns, compute the metric groups, serve them.        *)
(*                                                                         *)
(* Numbers of the pipeline are modelled as extended rationals <<n, d>>     *)
(* (d > 0, lowest terms), with the three IEEE special values the code's    *)
(* arithmetic produces: NaN = <<0,0>>, +inf = <<1,0>>, -inf = <<-1,0>>.    *)
(* The binary64 rounding of the return columns is modelled separately      *)
(* (section "binary64") for the claims that depend on it.                  *)
(***************************************************************************)
EXTENDS Integers, Sequences, FiniteSets, TLC

VARIABLES
  source,   \* the data source: whether it can be read, and its Close values
  module,   \* which program of the repository runs
  df,       \* the data frame the running program holds (None before a load)
  pc,       \* where the running program is
  last,     \* the latest aggregator call: its name, whether it raised, its result
  resp,     \* the latest web response
  pyplot,   \* matplotlib.pyplot's figures, one per process, the current one last
  environ,  \* os.environ of the process
  fs,       \* the paths that exist under the working directory
  config    \* the attributes of the config module, once imported

vars == <<source, module, df, pc, last, resp, pyplot, environ, fs, config>>

-----------------------------------------------------------------------------
(* Extended rational arithmetic (numpy float semantics without rounding).  *)

Abs(x) == IF x < 0 THEN -x ELSE x

Sign(x) == IF x > 0 THEN 1 ELSE IF x < 0 THEN -1 ELSE 0

RECURSIVE GCD(_, _)
GCD(a, b) == IF b = 0 THEN a ELSE GCD(b, a % b)

Norm(n, d) ==
  IF d = 0 THEN <<Sign(n), 0>>
  ELSE IF d = 1 THEN <<n, 1>>
  ELSE LET g == GCD(Abs(n), Abs(d))
           s == Sign(d)
       IN  <<(s * n) \div g, (s * d) \div g>>

NaN == <<0, 0>>
Inf == <<1, 0>>
Zero == <<0, 1>>
One == <<1, 1>>
Num(i) == <<i, 1>>
Rat(n, d) == Norm(n, d)

IsNaN(a) == a = NaN
IsFinite(a) == a[2] # 0

Neg(a) == <<-a[1], a[2]>>

Add(a, b) ==
  IF a[2] = 0 \/ b[2] = 0
  THEN IF a[2] = 0 /\ b[2] = 0 THEN (IF a = b THEN a ELSE NaN)
       ELSE IF a[2] = 0 THEN a ELSE b
  ELSE IF a[2] = b[2] THEN Norm(a[1] + b[1], a[2])
  ELSE LET g == GCD(a[2], b[2])
       IN  Norm(a[1] * (b[2] \div g) + b[1] * (a[2] \div g), (a[2] \div g) * b[2])

Sub(a, b) == Add(a, Neg(b))

Mul(a, b) == Norm(a[1] * b[1], a[2] * b[2])

Recip(b) ==
  IF b[2] = 0 THEN (IF b = NaN THEN NaN ELSE Zero)
  ELSE IF b[1] = 0 THEN Inf
  ELSE Norm(b[2], b[1])

Div(a, b) == Mul(a, Recip(b))

\* Comparisons: every comparison with NaN is false.
Lt(a, b) ==
  IF a = NaN \/ b = NaN THEN FALSE
  ELSE IF a[2] = 0 /\ b[2] = 0 THEN a[1] < b[1]
  ELSE a[1] * b[2] < b[1] * a[2]

Gt(a, b) == Lt(b, a)
Le(a, b) == a # NaN /\ b # NaN /\ ~Lt(b, a)
Ge(a, b) == Le(b, a)
Eq(a, b) == a # NaN /\ b # NaN /\ a = b

-----------------------------------------------------------------------------
(* The pandas / numpy column operations the aggregators call.              *)

\* The associative operations the columns are folded with; a missing value
\* is skipped (skipna), as pandas does in sums, products and extrema.
Fold(op, a, b) ==
  IF a = NaN THEN b
  ELSE IF b = NaN THEN a
  ELSE CASE op = "sum" -> Add(a, b)
         [] op = "prod" -> Mul(a, b)
         [] op = "max" -> IF Lt(a, b) THEN b ELSE a
         [] op = "min" -> IF Lt(b, a) THEN b ELSE a

\* The fold of s[lo..hi] (NaN when it holds no value), by halving.
RECURSIVE Reduce(_, _, _, _)
Reduce(op, s, lo, hi) ==
  IF lo > hi THEN NaN
  ELSE IF lo = hi THEN s[lo]
  ELSE LET mid == (lo + hi) \div 2
       IN  Fold(op, Reduce(op, s, lo, mid), Reduce(op, s, mid + 1, hi))

\* All the running folds of s: entry i is the fold of s[1..i].  Each round
\* combines every entry with the one k places before it, k = 1, 2, 4, ...
RECURSIVE ScanFrom(_, _, _)
ScanFrom(op, p, k) ==
  IF k >= Len(p) THEN p
  ELSE ScanFrom(op,
                SubSeq([i \in 1..Len(p) |->
                          IF i > k THEN Fold(op, p[i - k], p[i]) ELSE p[i]],
                       1, Len(p)),
                2 * k)

Scan(op, s) == ScanFrom(op, s, 1)

\* Series.dropna()
dropna(s) == SelectSeq(s, LAMBDA x : x # NaN)

\* Series.sum(): 0 for no value
SumSeq(s) == LET r == Reduce("sum", s, 1, Len(s)) IN IF r = NaN THEN Zero ELSE r

\* Series.mean(): NaN entries are skipped; the mean of nothing is NaN.
mean(s) == LET v == dropna(s) IN Div(SumSeq(v), Num(Len(v)))

\* Series.pct_change(): data / data.shift(1) - 1
pct_change(s) ==
  [i \in 1..Len(s) |-> IF i = 1 THEN NaN ELSE Sub(Div(s[i], s[i - 1]), One)]

\* Series.diff(): data - data.shift(1)
diff(s) == [i \in 1..Len(s) |-> IF i = 1 THEN NaN ELSE Sub(s[i], s[i - 1])]

\* Series.cumprod(): the running product skips NaN entries, which stay NaN.
cumprod(s) ==
  LET p == Scan("prod", s)
  IN  [i \in 1..Len(s) |-> IF s[i] = NaN THEN NaN ELSE p[i]]

\* 1 + series
OnePlus(s) == [i \in 1..Len(s) |-> Add(One, s[i])]

\* A rolling mean whose window lets a value leave one record late.
rolling_mean_late(s, w) ==
  LET n == Len(s)
      entered == Scan("sum", s)
      counted == Scan("sum", [i \in 1..n |-> IF s[i] = NaN THEN Zero ELSE One])
      seen == [i \in 0..n |-> IF i = 0 THEN 0 ELSE counted[i][1]]
  IN  [i \in 1..n |->
         LET nobs == IF i > w THEN seen[i] - seen[i - w] ELSE seen[i]
             sum_x == IF i > w + 1 /\ entered[i - w - 1] # NaN
                      THEN Sub(entered[i], entered[i - w - 1]) ELSE entered[i]
         IN  IF nobs >= w THEN Div(sum_x, Num(nobs)) ELSE NaN]

\* Series.rolling(window=w).mean(): min_periods = w, so the value is missing
\* until w records exist and whenever the window holds a missing value.
\* As in pandas the window slides over a running sum: sum_x is the sum of
\* the values that entered minus the sum of those that left, nobs counts the
\* non-missing values in the window.
rolling_mean(s, w) ==
  LET n == Len(s)
      entered == Scan("sum", s)
      counted == Scan("sum", [i \in 1..n |-> IF s[i] = NaN THEN Zero ELSE One])
      seen == [i \in 0..n |-> IF i = 0 THEN 0 ELSE counted[i][1]]
  IN  [i \in 1..n |->
         LET nobs == IF i > w THEN seen[i] - seen[i - w] ELSE seen[i]
             sum_x == IF i > w /\ entered[i - w] # NaN
                      THEN Sub(entered[i], entered[i - w]) ELSE entered[i]
         IN  IF nobs >= w THEN Div(sum_x, Num(nobs)) ELSE NaN]

\* Series.expanding().max()
expanding_max(s) == Scan("max", s)

\* Series.min(): NaN entries are skipped; the minimum of nothing is NaN.
min(s) == Reduce("min", s, 1, Len(s))

\* Series.max()
max(s) == Reduce("max", s, 1, Len(s))

\* Series.std() squared: the sample variance (ddof = 1) of the non-missing
\* entries; NaN for fewer than two of them.  The model carries the variance
\* where the code carries the standard deviation.
var(s) ==
  LET v == dropna(s)
      m == mean(v)
      sq == [i \in 1..Len(v) |-> Mul(Sub(v[i], m), Sub(v[i], m))]
  IN  IF Len(v) < 2 THEN NaN ELSE Div(SumSeq(sq), Num(Len(v) - 1))

\* The k-th smallest entry of a (1 <= k <= Len(a), a without NaN): the entry
\* with fewer than k entries below it and at least k not above it.
kth_smallest(a, k) ==
  LET i == CHOOSE i \in 1..Len(a) :
             /\ Cardinality({j \in 1..Len(a) : Lt(a[j], a[i])}) < k
             /\ Cardinality({j \in 1..Len(a) : Le(a[j], a[i])}) >= k
  IN  a[i]

\* np.percentile(a, q): linear interpolation between the two order statistics
\* around the virtual index (n - 1) * q / 100 (a is non-empty, without NaN).
percentile(a, q) ==
  LET n == Len(a)
      lo == ((n - 1) * q) \div 100
      frac == Rat((n - 1) * q - lo * 100, 100)
      below == kth_smallest(a, lo + 1)
  IN  IF lo + 1 >= n THEN below
      ELSE Add(below, Mul(frac, Sub(kth_smallest(a, lo + 2), below)))

Last(s) == s[Len(s)]

\* F applied to the value of e, computed once.
Let1(e, F(_)) == CHOOSE r \in {F(x) : x \in {e}} : TRUE

-----------------------------------------------------------------------------
(* binary64.  The frames hold float64 columns; where the exact value of a  *)
(* result matters the arithmetic is IEEE 754 double precision, rounded to  *)
(* nearest, ties to even.  A natural number is a sequence of limbs, least  *)
(* significant first, without a leading zero limb.  A double is FNaN or    *)
(* <<sign, m, e>>, standing for sign * m * 2^e with m of exactly 53 bits   *)
(* (sign 0 and no limb for zero).  The values met here are far from the    *)
(* exponent limits: overflow and subnormals are left out.                  *)

LimbBits == 12
Limb == 2 ^ LimbBits
Precision == 53
\* Limbs of the fraction a long division produces before it is rounded.
QuotientLimbs == 6

RECURSIVE BNorm(_)
BNorm(x) ==
  IF Len(x) > 0 /\ x[Len(x)] = 0 THEN BNorm(SubSeq(x, 1, Len(x) - 1)) ELSE x

BLimb(x, i) == IF i >= 1 /\ i <= Len(x) THEN x[i] ELSE 0

\* The limbs of the number whose columns are cols (a column may exceed a
\* limb, or be negative when the total is not).
RECURSIVE BCarryFrom(_, _, _)
BCarryFrom(cols, i, carry) ==
  IF i > Len(cols)
  THEN IF carry = 0 THEN <<>>
       ELSE <<carry % Limb>> \o BCarryFrom(cols, i, carry \div Limb)
  ELSE <<(cols[i] + carry) % Limb>>
         \o BCarryFrom(cols, i + 1, (cols[i] + carry) \div Limb)

BCarry(cols) == BNorm(BCarryFrom(cols, 1, 0))

BFromInt(n) == BCarry(<<n>>)

BMaxLen(x, y) == IF Len(x) < Len(y) THEN Len(y) ELSE Len(x)

BAdd(x, y) == BCarry([i \in 1..BMaxLen(x, y) |-> BLimb(x, i) + BLimb(y, i)])

\* x - y for x >= y
BSub(x, y) == BCarry([i \in 1..Len(x) |-> x[i] - BLimb(y, i)])

RECURSIVE IntSum(_, _)
IntSum(t, i) == IF i > Len(t) THEN 0 ELSE t[i] + IntSum(t, i + 1)

BMul(x, y) ==
  IF Len(x) = 0 \/ Len(y) = 0 THEN <<>>
  ELSE BCarry([k \in 1..(Len(x) + Len(y) - 1) |->
                 IntSum([i \in 1..Len(x) |-> x[i] * BLimb(y, k + 1 - i)], 1)])

BLess(x, y) ==
  IF Len(x) # Len(y) THEN Len(x) < Len(y)
  ELSE \E i \in 1..Len(x) :
         x[i] < y[i] /\ \A j \in (i + 1)..Len(x) : x[j] = y[j]

\* The number of bits of x.
BitLen(x) ==
  IF Len(x) = 0 THEN 0
  ELSE LimbBits * (Len(x) - 1)
         + (CHOOSE k \in 1..LimbBits : x[Len(x)] < 2 ^ k /\ x[Len(x)] >= 2 ^ (k - 1))

BPow2(k) ==
  [i \in 1..(k \div LimbBits + 1) |->
     IF i = k \div LimbBits + 1 THEN 2 ^ (k % LimbBits) ELSE 0]

\* x * 2^k
BShl(x, k) == BMul(x, BPow2(k))

\* floor(x / 2^k)
BShr(x, k) ==
  LET a == k \div LimbBits
      b == k % LimbBits
  IN  IF Len(x) <= a THEN <<>>
      ELSE BNorm([i \in 1..(Len(x) - a) |->
                    (x[i + a] \div 2 ^ b)
                      + (BLimb(x, i + a + 1) % 2 ^ b) * 2 ^ (LimbBits - b)])

\* Bit k of x, bit 0 the lowest.
BBit(x, k) == (BLimb(x, k \div LimbBits + 1) \div 2 ^ (k % LimbBits)) % 2

\* The k lowest bits of x are zero.
BLowZero(x, k) == BShl(BShr(x, k), k) = x

FNaN == <<2, <<>>, 0>>
FZero == <<0, <<>>, 0>>

\* A rounding that drops the bits beyond the 53rd (round toward zero).
FRound_toward_zero(sign, M, e, sticky) ==
  IF Len(M) = 0 THEN FZero
  ELSE IF BitLen(M) <= Precision
  THEN <<sign, BShl(M, Precision - BitLen(M)), e - (Precision - BitLen(M))>>
  ELSE <<sign, BShr(M, BitLen(M) - Precision), e + BitLen(M) - Precision>>

\* sign * M * 2^e, plus a fraction of 2^e when sticky, rounded to 53 bits.
FRound(sign, M, e, sticky) ==
  IF Len(M) = 0 THEN FZero
  ELSE IF BitLen(M) <= Precision
  THEN <<sign, BShl(M, Precision - BitLen(M)), e - (Precision - BitLen(M))>>
  ELSE LET k == BitLen(M) - Precision
           q == BShr(M, k)
           half == BBit(M, k - 1) = 1
           low == sticky \/ ~BLowZero(M, k - 1)
           up == half /\ (low \/ q[1] % 2 = 1)
           r == IF up THEN BAdd(q, <<1>>) ELSE q
       IN  IF BitLen(r) > Precision THEN <<sign, BShr(r, 1), e + k + 1>>
           ELSE <<sign, r, e + k>>

\* The limbs of the fraction r / b (r < b), the highest first, n of them,
\* and what is left of r.
RECURSIVE LongDivision(_, _, _)
LongDivision(r, b, n) ==
  IF n = 0 THEN <<<<>>, r>>
  ELSE LET rest == LongDivision((r * Limb) % b, b, n - 1)
       IN  <<<<(r * Limb) \div b>> \o rest[1], rest[2]>>

Reverse(x) == [i \in 1..Len(x) |-> x[Len(x) + 1 - i]]

\* float(a) / float(b) for integers 0 < a, 0 < b: the quotient of two
\* doubles is the real quotient, rounded once.
FDivInt(a, b) ==
  LET d == LongDivision(a % b, b, QuotientLimbs)
  IN  FRound(1, BNorm(Reverse(d[1]) \o <<a \div b>>),
             0 - LimbBits * QuotientLimbs, d[2] # 0)

FFromInt(n) == FRound(Sign(n), BFromInt(Abs(n)), 0, FALSE)

FNeg(x) == IF x = FNaN THEN x ELSE <<0 - x[1], x[2], x[3]>>

FAdd(x, y) ==
  IF x = FNaN \/ y = FNaN THEN FNaN
  ELSE IF x[1] = 0 THEN y
  ELSE IF y[1] = 0 THEN x
  ELSE LET e == IF x[3] < y[3] THEN x[3] ELSE y[3]
           X == BShl(x[2], x[3] - e)
           Y == BShl(y[2], y[3] - e)
       IN  IF x[1] = y[1] THEN FRound(x[1], BAdd(X, Y), e, FALSE)
           ELSE IF X = Y THEN FZero
           ELSE IF BLess(X, Y) THEN FRound(y[1], BSub(Y, X), e, FALSE)
           ELSE FRound(x[1], BSub(X, Y), e, FALSE)

FSub(x, y) == FAdd(x, FNeg(y))

\* The double 2^k.
FPow2(k) == <<1, BPow2(Precision - 1), k - (Precision - 1)>>

FMul(x, y) ==
  IF x = FNaN \/ y = FNaN THEN FNaN
  ELSE IF x[1] = 0 \/ y[1] = 0 THEN FZero
  ELSE FRound(x[1] * y[1], BMul(x[2], y[2]), x[3] + y[3], FALSE)

\* x <= y; false with a NaN.
FLe(x, y) == x # FNaN /\ y # FNaN /\ FSub(x, y)[1] <= 0

\* Series.pct_change() on a float64 column of whole prices.
pct_change64(close) ==
  [i \in 1..Len(close) |->
     IF i = 1 THEN FNaN
     ELSE FSub(FDivInt(close[i][1], close[i - 1][1]), FFromInt(1))]

\* Series.cumprod() on a float64 column: the product runs from the first
\* record to the last, a NaN entry counting as 1 and staying NaN.
RECURSIVE cumprod64From(_, _, _)
cumprod64From(s, i, acc) ==
  IF i > Len(s) THEN <<>>
  ELSE IF s[i] = FNaN THEN <<FNaN>> \o cumprod64From(s, i + 1, acc)
  ELSE <<FMul(acc, s[i])>> \o cumprod64From(s, i + 1, FMul(acc, s[i]))

cumprod64(s) == cumprod64From(s, 1, FFromInt(1))

OnePlus64(s) == [i \in 1..Len(s) |-> FAdd(FFromInt(1), s[i])]

-----------------------------------------------------------------------------
(* Program constants.                                                      *)

RSI_WINDOW == 14
SMA_20_WINDOW == 20
SMA_50_WINDOW == 50
SMA_200_WINDOW == 200
TRADING_DAYS == 252
VAR_PERCENTILE == 5
VOLATILITY_WINDOW == 30

\* risk_free_rate = 0.02
risk_free_rate == Rat(2, 100)

\* float(text) of a decimal text, kept as <<digits, places>>: "0.02" is
\* <<2, 2>>.
float(text) == Rat(text[1], 10 ^ text[2])

\* config.py: RISK_FREE_RATE = float(os.environ.get("RISK_FREE_RATE", "0.02"))
RISK_FREE_RATE(env) ==
  float(IF "RISK_FREE_RATE" \in DOMAIN env THEN env["RISK_FREE_RATE"] ELSE <<2, 2>>)

-----------------------------------------------------------------------------
(* The data frame.  The model carries the Close column of the price table  *)
(* and the derived columns the analytics add to it in place.  A column     *)
(* that the frame does not have is <<>>; None is the frame load_data       *)
(* returns when the source cannot be read.  The other columns of the table *)
(* (Open, High, Low, Adj Close, Volume) are not carried: what is computed  *)
(* from them appears by name.                                              *)

Columns ==
  {"Close", "Daily_Return", "Cumulative_Return", "SMA_20", "SMA_50", "SMA_200",
   "RSI", "Volatility_30d", "Signal", "Strategy_Return"}

None == [c \in Columns |-> <<>>]

HasCol(d, c) == d[c] # <<>>

\* len(df)
len(d) == Len(d["Close"])

\* len(df.dropna()): the rows without a missing value in any column.
len_dropna(d) ==
  Cardinality({i \in 1..len(d) :
                 \A c \in Columns : HasCol(d, c) => d[c][i] # NaN})

\* A call's outcome: the frame as the call leaves it, whether it raised, the
\* values it computed (under the names of its local variables) and the
\* formatted mapping it returned or printed.
Outcome(d, raised, vals, out) ==
  [df |-> d, raised |-> raised, vals |-> vals, out |-> out]

EmptyDict == [k \in {} |-> NaN]

Nothing(d) == Outcome(d, FALSE, EmptyDict, EmptyDict)

Raised(d) == Outcome(d, TRUE, EmptyDict, EmptyDict)

-----------------------------------------------------------------------------
(* Formatting.  A formatted number is the text around it, its sign, the    *)
(* digits as the whole number value * 10^d, and d; nan and inf are printed *)
(* by name.  The rounding is to the nearest, ties to even, of the exact    *)
(* value (Python rounds the exact value of the double).  A value that      *)
(* takes a root or a power is carried unformatted, with its format.        *)

RoundHalfEven(x) ==
  LET n == x[1] \div x[2]
      r == x[1] % x[2]
  IN  IF 2 * r > x[2] \/ (2 * r = x[2] /\ n % 2 = 1) THEN n + 1 ELSE n

Fmt(pre, x, d, suf) ==
  IF x = NaN THEN <<pre, "nan", suf>>
  ELSE IF ~IsFinite(x) THEN <<pre, IF x = Inf THEN "inf" ELSE "-inf", suf>>
  ELSE <<pre, IF Lt(x, Zero) THEN "-" ELSE "",
         RoundHalfEven(Mul(<<Abs(x[1]), x[2]>>, Num(10 ^ d))), d, suf>>

\* f"${x:.2f}"
Dollars(x) == Fmt("$", x, 2, "")

\* f"{x:.2%}"
Percent(x) == Fmt("", Mul(x, Num(100)), 2, "%")

\* f"{x:.1f}"
OneDecimal(x) == Fmt("", x, 1, "")

\* f"{n:,}"
Grouped(n) == Fmt("", Num(n), 0, "")

Unformatted(format, x) == <<format, x>>

-----------------------------------------------------------------------------
(* load_data                                                               *)

\* The names load_data gives the columns it splits each cell into.
ColumnNames == <<"Date", "Open", "High", "Low", "Close", "Adj Close", "Volume">>

FIELDS == Len(ColumnNames)

\* The workbook as it lies on disk: whether read_excel can open it, and the
\* cells of its first column under the header, one per row.  Of a cell the
\* model keeps the number of comma-separated fields, the text of the date
\* field (a day number from 1 on, or 0 for text that is no date) and the
\* text of the close field (a whole number from 1 on, or 0 for text that is
\* no number).
\*
\* read_source is the body of load_data up to set_index:
\*   - read_excel raises when the file cannot be opened;
\*   - with no row, str.split(expand=True) gives no column, and with a row
\*     of more than seven fields it gives more than seven: naming the seven
\*     columns raises (so does it when no row has seven fields);
\*   - a row of fewer fields is padded with None;
\*   - to_datetime raises on a text that is no date;
\*   - to_numeric(errors='coerce') turns text that is no number, and None,
\*     into NaN;
\*   - set_index keeps the rows in the order of the file.
\* It gives whether all of this went through, the index and the closes.
IsDate(text) == text >= 1

IsNumber(text) == text >= 1

read_source(file) ==
  LET n == Len(file.cells)
      widest == max([i \in 1..n |-> Num(file.cells[i].fields)])
      ClosePos == CHOOSE k \in 1..FIELDS : ColumnNames[k] = "Close"
      ok == /\ file.exists
            /\ n > 0
            /\ widest = Num(FIELDS)
            /\ \A i \in 1..n : IsDate(file.cells[i].date)
  IN  [readable |-> ok,
       index |-> IF ok THEN [i \in 1..n |-> file.cells[i].date] ELSE <<>>,
       rows |-> IF ok
                THEN [i \in 1..n |->
                        IF file.cells[i].fields >= ClosePos /\ IsNumber(file.cells[i].close)
                        THEN Num(file.cells[i].close) ELSE NaN]
                ELSE <<>>]

\* app.py: any failure to read or split the source is caught and None is
\* returned.
load_data(src) ==
  IF src.readable THEN [None EXCEPT !["Close"] = src.rows] ELSE None

-----------------------------------------------------------------------------
(* Aggregators of app.py                                                   *)

descriptive_analytics(d) ==
  IF d = None THEN Nothing(d)
  ELSE Outcome(d, FALSE,
         [total_trading_days |-> len(d),
          average_closing_price |-> mean(d["Close"]),
          current_price |-> Last(d["Close"])],
         [data_period |-> "index.min to index.max",
          total_trading_days |-> Grouped(len(d)),
          average_daily_volume |-> "Volume.mean",
          price_range |-> "Low.min - High.max",
          average_closing_price |-> Dollars(mean(d["Close"])),
          current_price |-> Dollars(Last(d["Close"]))])

\* The values performance_analytics computes from the frame with its two
\* columns.
performance_metrics(d2) ==
  [total_return |-> Sub(Last(d2["Cumulative_Return"]), One),
   \* Cumulative_Return.iloc[-1] ** (252 / len(df)) - 1, kept as the base
   \* and the exponent of the power
   annual_return |-> <<Last(d2["Cumulative_Return"]), Rat(TRADING_DAYS, len(d2))>>,
   \* Daily_Return.std() * sqrt(252), kept as the variance
   volatility |-> var(d2["Daily_Return"])]

performance_report(v) ==
  [total_return |-> Percent(v.total_return),
   annualized_return |-> Unformatted(".2%", v.annual_return),
   annualized_volatility |-> Unformatted(".2%", v.volatility),
   current_volatility |-> Unformatted(".2%", v.volatility)]

\* df['Daily_Return'] = df['Close'].pct_change()
with_Daily_Return(d) == [d EXCEPT !["Daily_Return"] = pct_change(d["Close"])]

\* df['Cumulative_Return'] = (1 + df['Daily_Return']).cumprod()
with_Cumulative_Return(d) ==
  [d EXCEPT !["Cumulative_Return"] = cumprod(OnePlus(d["Daily_Return"]))]

performance_analytics(d) ==
  IF d = None THEN Nothing(d)
  ELSE Let1(with_Daily_Return(d), LAMBDA d1 :
         Let1(with_Cumulative_Return(d1), LAMBDA d2 :
           Let1(performance_metrics(d2), LAMBDA v :
             Outcome(d2, FALSE, v, performance_report(v)))))

\* performance_analytics with its two columns and the total return in
\* float64, as the program computes them.
performance_analytics64(d) ==
  Let1([d EXCEPT !["Daily_Return"] = pct_change64(d["Close"])], LAMBDA d1 :
    Let1([d1 EXCEPT !["Cumulative_Return"] = cumprod64(OnePlus64(d1["Daily_Return"]))],
         LAMBDA d2 :
           Outcome(d2, FALSE,
             [total_return |-> FSub(Last(d2["Cumulative_Return"]), FFromInt(1))],
             EmptyDict)))

\* An RSI whose average loss keeps its sign.
calculate_rsi_signed_loss(data, window) ==
  LET delta == diff(data)
      up == [i \in 1..Len(delta) |-> IF Gt(delta[i], Zero) THEN delta[i] ELSE Zero]
      down == [i \in 1..Len(delta) |-> IF Lt(delta[i], Zero) THEN delta[i] ELSE Zero]
      gain == rolling_mean(up, window)
      loss == rolling_mean(down, window)
      rs == [i \in 1..Len(data) |-> Div(gain[i], loss[i])]
  IN  [i \in 1..Len(data) |-> Sub(Num(100), Div(Num(100), Add(One, rs[i])))]

calculate_rsi(data, window) ==
  LET delta == diff(data)
      up == [i \in 1..Len(delta) |-> IF Gt(delta[i], Zero) THEN delta[i] ELSE Zero]
      down == [i \in 1..Len(delta) |-> IF Lt(delta[i], Zero) THEN delta[i] ELSE Zero]
      gain == rolling_mean(up, window)
      loss == rolling_mean([i \in 1..Len(down) |-> Neg(down[i])], window)
      rs == [i \in 1..Len(data) |-> Div(gain[i], loss[i])]
  IN  [i \in 1..Len(data) |-> Sub(Num(100), Div(Num(100), Add(One, rs[i])))]

\* Technical metrics whose signal is bullish also at equality.
technical_metrics_at_or_above(d2) ==
  [current_price |-> Last(d2["Close"]),
   current_sma_20 |-> Last(d2["SMA_20"]),
   current_sma_50 |-> Last(d2["SMA_50"]),
   current_rsi |-> Last(d2["RSI"]),
   signal |-> IF Ge(Last(d2["Close"]), Last(d2["SMA_50"])) THEN "BULLISH" ELSE "BEARISH"]

technical_metrics(d2) ==
  [current_price |-> Last(d2["Close"]),
   current_sma_20 |-> Last(d2["SMA_20"]),
   current_sma_50 |-> Last(d2["SMA_50"]),
   current_rsi |-> Last(d2["RSI"]),
   signal |-> IF Gt(Last(d2["Close"]), Last(d2["SMA_50"])) THEN "BULLISH" ELSE "BEARISH"]

technical_report(v) ==
  [current_price |-> Dollars(v.current_price),
   sma_20 |-> Dollars(v.current_sma_20),
   sma_50 |-> Dollars(v.current_sma_50),
   rsi |-> OneDecimal(v.current_rsi),
   signal |-> v.signal,
   signal_color |-> IF v.signal = "BULLISH" THEN "green" ELSE "red"]

technical_analytics(d) ==
  IF d = None THEN Nothing(d)
  ELSE Let1([d EXCEPT !["SMA_20"] = rolling_mean(d["Close"], SMA_20_WINDOW),
                      !["SMA_50"] = rolling_mean(d["Close"], SMA_50_WINDOW),
                      !["RSI"] = calculate_rsi(d["Close"], RSI_WINDOW)],
            LAMBDA d2 :
              Let1(technical_metrics(d2), LAMBDA v :
                Outcome(d2, FALSE, v, technical_report(v))))

\* A drawdown measured from the value up to the running maximum.
drawdown_series_flipped(returns) ==
  LET cumulative == cumprod(OnePlus(returns))
      running_max == expanding_max(cumulative)
  IN  [i \in 1..Len(returns) |->
         Div(Sub(running_max[i], cumulative[i]), running_max[i])]

\* The drawdown series of risk_analytics, from the returns it is given.
drawdown_series(returns) ==
  LET cumulative == cumprod(OnePlus(returns))
      running_max == expanding_max(cumulative)
  IN  [i \in 1..Len(returns) |->
         Div(Sub(cumulative[i], running_max[i]), running_max[i])]

risk_level(max_drawdown) ==
  LET a == IF Lt(max_drawdown, Zero) THEN Neg(max_drawdown) ELSE max_drawdown
  IN  IF Gt(a, Rat(5, 10)) THEN "High"
      ELSE IF Gt(a, Rat(2, 10)) THEN "Medium" ELSE "Low"

risk_report(v) ==
  [var_95 |-> Percent(v.var_95),
   max_drawdown |-> Percent(v.max_drawdown),
   sharpe_ratio |-> Unformatted(".2f", v.sharpe_ratio),
   risk_level |-> risk_level(v.max_drawdown)]

\* The part of risk_analytics after `returns` is computed.  np.percentile of
\* an empty array raises in some numpy versions and returns nan in others:
\* emptyRaises is the outcome of the build.
risk_metrics(d, returns, emptyRaises) ==
  IF returns = <<>> /\ emptyRaises THEN Raised(d)
  ELSE Let1(drawdown_series(returns), LAMBDA drawdown :
         Let1([var_95 |-> IF returns = <<>> THEN NaN
                          ELSE percentile(returns, VAR_PERCENTILE),
               drawdown |-> drawdown,
               max_drawdown |-> min(drawdown),
               \* sqrt(252) * excess_returns.mean() / returns.std(), kept
               \* as the mean and the variance it is formed from
               sharpe_ratio |->
                 <<mean([i \in 1..Len(returns) |->
                           Sub(returns[i], Div(risk_free_rate, Num(TRADING_DAYS)))]),
                   var(returns)>>],
              LAMBDA v : Outcome(d, FALSE, v, risk_report(v))))

risk_analytics(d, emptyRaises) ==
  IF d = None THEN Nothing(d)
  ELSE Let1(dropna(pct_change(d["Close"])),
            LAMBDA returns : risk_metrics(d, returns, emptyRaises))

-----------------------------------------------------------------------------
(* The analytics of comprehensive_analytics.py (generate_reports.py and    *)
(* generate_excel_reports.py repeat the formulas).  They take the loaded   *)
(* frame (load_data raises there when the source cannot be read) and print *)
(* what they compute: `out` is what is printed, by line.                   *)

descriptive_printed(d) ==
  Outcome(d, FALSE,
    [total_trading_days |-> len(d),
     average_closing_price |-> mean(d["Close"])],
    [data_period |-> "index.min to index.max",
     total_trading_days |-> Grouped(len(d)),
     average_daily_volume |-> "Volume.mean",
     price_range |-> "Low.min - High.max",
     average_closing_price |-> Dollars(mean(d["Close"]))])

performance_printed(d) ==
  Let1(with_Daily_Return(d), LAMBDA d1 :
    Let1(with_Cumulative_Return(d1), LAMBDA d2 :
      Let1(performance_metrics(d2), LAMBDA v :
        Outcome(d2, FALSE, v,
          [total_return |-> Percent(v.total_return),
           annualized_return |-> Unformatted(".2%", v.annual_return),
           annualized_volatility |-> Unformatted(".2%", v.volatility)]))))

technical_analysis(d) ==
  Let1([d EXCEPT !["SMA_50"] = rolling_mean(d["Close"], SMA_50_WINDOW),
                 !["RSI"] = calculate_rsi(d["Close"], RSI_WINDOW)],
       LAMBDA d2 :
         Outcome(d2, FALSE,
           [current_price |-> Last(d2["Close"]),
            current_sma |-> Last(d2["SMA_50"]),
            current_rsi |-> Last(d2["RSI"])],
           [current_price |-> Dollars(Last(d2["Close"])),
            sma_50 |-> Dollars(Last(d2["SMA_50"])),
            rsi |-> OneDecimal(Last(d2["RSI"])),
            signal |-> IF Gt(Last(d2["Close"]), Last(d2["SMA_50"]))
                       THEN "BULLISH (price above SMA)"
                       ELSE "BEARISH (price below SMA)"]))

\* returns = df['Daily_Return'].dropna(): a KeyError when no earlier call
\* added the column.  The three values are printed as app.py formats them.
risk_analytics_comprehensive(d, emptyRaises) ==
  IF ~HasCol(d, "Daily_Return") THEN Raised(d)
  ELSE Let1(dropna(d["Daily_Return"]),
            LAMBDA returns : risk_metrics(d, returns, emptyRaises))

\* time_series_analysis reads the frame by month and by year and prints;
\* the model has no dates.  idxmax of the monthly averages raises, on the
\* pandas versions that raise for it, when every one of them is missing
\* (all records in one month): raises is that outcome.
time_series_analysis(d, raises) == Outcome(d, raises, EmptyDict, EmptyDict)

\* Series.rolling(window=w).std() squared: the sample variance of the
\* window, missing unless the window holds w values.
rolling_var(s, w) ==
  [i \in 1..Len(s) |->
     IF i < w \/ \E j \in (i - w + 1)..i : s[j] = NaN THEN NaN
     ELSE var(SubSeq(s, i - w + 1, i))]

\* volatility_analysis: Volatility_30d is rolling(30).std() * sqrt(252),
\* kept as the variance of the window.
volatility_analysis(d) ==
  Let1(with_Daily_Return(d), LAMBDA d1 :
    Let1([d1 EXCEPT !["Volatility_30d"] =
                      rolling_var(d1["Daily_Return"], VOLATILITY_WINDOW)],
         LAMBDA d2 :
           Outcome(d2, FALSE,
             [current_vol |-> Last(d2["Volatility_30d"]),
              avg_vol |-> mean(d2["Volatility_30d"])],
             EmptyDict)))

\* A label chosen with the trend tested before the crossing.
prediction_label_trend_first(sma_20, sma_50, prev_20, prev_50) ==
  IF Gt(sma_20, sma_50) THEN "Bullish trend continuation"
  ELSE IF Lt(sma_20, sma_50) THEN "Bearish trend continuation"
  ELSE IF Le(prev_20, prev_50) THEN "GOLDEN CROSS - Bullish signal"
  ELSE "DEATH CROSS - Bearish signal"

\* A labelling whose continuation test is "at or above": equal averages
\* read as a bullish continuation.
prediction_label_at_or_above(sma_20, sma_50, prev_20, prev_50) ==
  IF Gt(sma_20, sma_50) /\ Le(prev_20, prev_50) THEN "GOLDEN CROSS - Bullish signal"
  ELSE IF Lt(sma_20, sma_50) /\ Ge(prev_20, prev_50) THEN "DEATH CROSS - Bearish signal"
  ELSE IF Ge(sma_20, sma_50) THEN "Bullish trend continuation"
  ELSE "Bearish trend continuation"

\* The label predictive_analytics chooses from the two averages at the last
\* record (sma_20, sma_50) and at the one before it (prev_20, prev_50).
prediction_label(sma_20, sma_50, prev_20, prev_50) ==
  IF Gt(sma_20, sma_50) /\ Le(prev_20, prev_50) THEN "GOLDEN CROSS - Bullish signal"
  ELSE IF Lt(sma_20, sma_50) /\ Ge(prev_20, prev_50) THEN "DEATH CROSS - Bearish signal"
  ELSE IF Gt(sma_20, sma_50) THEN "Bullish trend continuation"
  ELSE "Bearish trend continuation"

\* The entry before the last (iloc[-2]).  On a one-record frame the code
\* never reads it: the averages of the last record are missing there, so
\* the comparison before each `and` is already false.
Previous(s) == IF Len(s) >= 2 THEN s[Len(s) - 1] ELSE NaN

predictive_analytics(d) ==
  Let1([d EXCEPT !["SMA_20"] = rolling_mean(d["Close"], SMA_20_WINDOW),
                 !["SMA_50"] = rolling_mean(d["Close"], SMA_50_WINDOW)],
       LAMBDA d2 :
         Let1([sma_20 |-> Last(d2["SMA_20"]),
               sma_50 |-> Last(d2["SMA_50"]),
               prediction |->
                 prediction_label(Last(d2["SMA_20"]), Last(d2["SMA_50"]),
                                  Previous(d2["SMA_20"]), Previous(d2["SMA_50"]))],
              LAMBDA v :
                Outcome(d2, FALSE, v,
                  [sma_20 |-> Dollars(v.sma_20),
                   sma_50 |-> Dollars(v.sma_50),
                   prediction |-> v.prediction])))

\* A backtest whose position is not lagged: the strategy return is the
\* signal of the same record times the daily return.
trading_strategy_analysis_unlagged(d) ==
  Let1([with_Daily_Return(d) EXCEPT
          !["SMA_20"] = rolling_mean(d["Close"], SMA_20_WINDOW)],
       LAMBDA d1 :
    Let1([d1 EXCEPT !["Signal"] =
                      [i \in 1..len(d1) |->
                         IF Gt(d1["Close"][i], d1["SMA_20"][i]) THEN One ELSE Neg(One)]],
         LAMBDA d2 :
      Let1([d2 EXCEPT !["Strategy_Return"] =
                        [i \in 1..len(d2) |->
                           IF i = 1 THEN NaN
                           ELSE Mul(d2["Signal"][i], d2["Daily_Return"][i])]],
           LAMBDA d3 :
             IF dropna(d3["Strategy_Return"]) = <<>> THEN Raised(d3)
             ELSE Outcome(d3, FALSE,
                    [strategy_return |->
                       Sub(Last(cumprod(OnePlus(dropna(d3["Strategy_Return"])))), One),
                     buy_hold_return |->
                       Sub(Last(cumprod(OnePlus(dropna(d3["Daily_Return"])))), One)],
                    EmptyDict))))

\* trading_strategy_analysis: Signal is 1 where the close is above its
\* 20-record average and -1 elsewhere; Strategy_Return is the signal of the
\* record before times the daily return.  iloc[-1] of the cumulative
\* strategy return raises IndexError when no strategy return exists.
trading_strategy_analysis(d) ==
  Let1([with_Daily_Return(d) EXCEPT
          !["SMA_20"] = rolling_mean(d["Close"], SMA_20_WINDOW)],
       LAMBDA d1 :
    Let1([d1 EXCEPT !["Signal"] =
                      [i \in 1..len(d1) |->
                         IF Gt(d1["Close"][i], d1["SMA_20"][i]) THEN One ELSE Neg(One)]],
         LAMBDA d2 :
      Let1([d2 EXCEPT !["Strategy_Return"] =
                        [i \in 1..len(d2) |->
                           IF i = 1 THEN NaN
                           ELSE Mul(d2["Signal"][i - 1], d2["Daily_Return"][i])]],
           LAMBDA d3 :
             IF dropna(d3["Strategy_Return"]) = <<>> THEN Raised(d3)
             ELSE Outcome(d3, FALSE,
                    [strategy_return |->
                       Sub(Last(cumprod(OnePlus(dropna(d3["Strategy_Return"])))), One),
                     buy_hold_return |->
                       Sub(Last(cumprod(OnePlus(dropna(d3["Daily_Return"])))), One)],
                    EmptyDict))))

\* market_sentiment_analysis reads Volume and prints; in the frame it sets
\* Daily_Return.
market_sentiment_analysis(d) ==
  Outcome(with_Daily_Return(d), FALSE, EmptyDict, EmptyDict)

regime_metrics(d2, bull_days, bear_days, total_days) ==
  [current_price |-> Last(d2["Close"]),
   current_sma_200 |-> Last(d2["SMA_200"]),
   regime |-> IF Gt(Last(d2["Close"]), Last(d2["SMA_200"]))
              THEN "BULL MARKET" ELSE "BEAR MARKET",
   bull_percentage |-> Mul(Div(Num(bull_days), Num(total_days)), Num(100)),
   bear_percentage |-> Mul(Div(Num(bear_days), Num(total_days)), Num(100))]

market_regime_analysis(d) ==
  Let1([d EXCEPT !["SMA_200"] = rolling_mean(d["Close"], SMA_200_WINDOW)],
       LAMBDA d2 :
         Let1(regime_metrics(d2,
                Cardinality({i \in 1..len(d2) : Gt(d2["Close"][i], d2["SMA_200"][i])}),
                Cardinality({i \in 1..len(d2) : Le(d2["Close"][i], d2["SMA_200"][i])}),
                len_dropna(d2)),
              LAMBDA v :
                Outcome(d2, FALSE, v,
                  [current_price |-> Dollars(v.current_price),
                   sma_200 |-> Dollars(v.current_sma_200),
                   regime |-> v.regime,
                   bull_percentage |-> Fmt("", v.bull_percentage, 1, "%"),
                   bear_percentage |-> Fmt("", v.bear_percentage, 1, "%")])))

\* correlation_analysis sets Daily_Return and adds Volume_Change, a column
\* of the volumes, which the model does not carry; it prints correlations.
correlation_analysis(d) ==
  Outcome(with_Daily_Return(d), FALSE, EmptyDict, EmptyDict)

\* np.std(x) squared: the population variance (ddof = 0); NaN for no entry.
\* The model carries the variance where the code carries the deviation.
np_var(x) ==
  LET m == mean(x)
      sq == [i \in 1..Len(x) |-> Mul(Sub(x[i], m), Sub(x[i], m))]
  IN  IF x = <<>> THEN NaN ELSE Div(SumSeq(sq), Num(Len(x)))

\* np.random.normal(loc, scale, n): n draws from an unseeded generator, any
\* reals; here the draws that are all 0 and the draws that alternate between
\* 1/100 and 0.
normal(n) ==
  {[i \in 1..n |-> Zero],
   [i \in 1..n |-> IF i % 2 = 1 THEN Rat(1, 100) ELSE Zero]}

\* performance_benchmarking sets Daily_Return and prints the annual return
\* against a market benchmark, the tracking error of the returns against
\* the drawn market returns, and the information ratio, which is 0 unless
\* the tracking error is positive.
performance_benchmarking(d, market_returns) ==
  Let1(with_Daily_Return(d), LAMBDA d1 :
    Let1(dropna(d1["Daily_Return"]), LAMBDA returns :
      Let1(np_var([i \in 1..Len(returns) |-> Sub(returns[i], market_returns[i])]),
           LAMBDA tracking_error :
             Outcome(d1, FALSE,
               [total_return |-> Sub(Last(cumprod(OnePlus(d1["Daily_Return"]))), One),
                tracking_error |-> tracking_error,
                information_ratio |->
                  IF Gt(tracking_error, Zero)
                  THEN Unformatted("excess_return / tracking_error", tracking_error)
                  ELSE Unformatted("", Zero)],
               [tracking_error |-> Unformatted(".2%", tracking_error)]))))

-----
(* Web layer                                                               *)

\* What a handler returns: the status and the JSON body (or the page).
Response(status, body) == [status |-> status, body |-> body]

\* The response as the client gets it, with the request it answers.
Answer(route, arg, r) ==
  [route |-> route, arg |-> arg, status |-> r.status, body |-> r.body]

NoResponse == [route |-> "", arg |-> "", status |-> 0, body |-> EmptyDict]

\* Flask answers an exception escaping a handler through errorhandler(500).
InternalError == Response(500, [page |-> "500.html"])

ChartTypes == {"price", "volume", "returns", "risk"}

\* app.py /api/analytics.  The four aggregators run in this order on the
\* frame the handler loaded.
api_analytics(src, emptyRaises) ==
  Let1(load_data(src), LAMBDA d0 :
    IF d0 = None THEN Response(404, [error |-> "Data not found"])
    ELSE
      Let1(descriptive_analytics(d0), LAMBDA de :
      Let1(performance_analytics(de.df), LAMBDA pe :
      Let1(technical_analytics(pe.df), LAMBDA te :
      Let1(risk_analytics(te.df, emptyRaises), LAMBDA ri :
        IF de.raised \/ pe.raised \/ te.raised \/ ri.raised THEN InternalError
        ELSE Response(200, [descriptive |-> de.out,
                            performance |-> pe.out,
                            technical |-> te.out,
                            risk |-> ri.out]))))))

\* What render_template may raise (the text of the exception), "" when it
\* renders.
Exceptions == {"TemplateNotFound: the template", "UndefinedError: a variable"}

\* The page handlers and their routes.
PageRoute ==
  [index |-> "/", dashboard |-> "/dashboard", about |-> "/about",
   documentation |-> "/documentation"]

Pages == DOMAIN PageRoute

\* app.py, app_with_analytics.py: index, about, documentation return
\* render_template('<page>.html'); an exception leaves the handler and Flask
\* answers through errorhandler(500).
app_page(page, exception) ==
  IF exception = "" THEN Response(200, [page |-> page]) ELSE InternalError

\* api/index.py: index, dashboard, about, documentation catch the exception
\* and return f"Error loading <page>: {str(e)}", 500.
index_page(page, exception) ==
  IF exception = "" THEN Response(200, [page |-> page])
  ELSE Response(500, [text |-> <<"Error loading ", page, ": ", exception>>])

\* app.py /dashboard.  When the data cannot be loaded the handler returns
\* the page error.html and no status, which Flask sends as 200.  Otherwise
\* the four aggregators and the four chart functions run on the frame the
\* handler loaded and the page dashboard.html is rendered with what they
\* gave (the model keeps the name of each chart as its image).
dashboard(src, emptyRaises) ==
  Let1(load_data(src), LAMBDA d0 :
    IF d0 = None
    THEN Response(200, [page |-> "error.html",
                        message |-> "Data file not found or corrupted"])
    ELSE
      Let1(descriptive_analytics(d0), LAMBDA de :
      Let1(performance_analytics(de.df), LAMBDA pe :
      Let1(technical_analytics(pe.df), LAMBDA te :
      Let1(risk_analytics(te.df, emptyRaises), LAMBDA ri :
        IF de.raised \/ pe.raised \/ te.raised \/ ri.raised THEN InternalError
        ELSE Response(200, [page |-> "dashboard.html",
                            descriptive |-> de.out,
                            performance |-> pe.out,
                            technical |-> te.out,
                            risk |-> ri.out,
                            price_chart |-> "price",
                            volume_chart |-> "volume",
                            returns_chart |-> "returns",
                            risk_chart |-> "risk"]))))))

\* A chart handler without the final else: an unknown type falls through to
\* the success response.
api_chart_no_else(src, chart_type) ==
  LET d0 == load_data(src)
  IN  IF d0 = None THEN Response(404, [error |-> "Data not found"])
      ELSE Response(200, [chart_url |-> IF chart_type \in ChartTypes
                                         THEN chart_type ELSE "None"])

\* app.py /api/chart/<chart_type>.  The chart functions render an image of
\* the frame; the model keeps the name of the chart as the image.
api_chart(src, chart_type) ==
  LET d0 == load_data(src)
  IN  IF d0 = None THEN Response(404, [error |-> "Data not found"])
      ELSE IF chart_type \in ChartTypes
           THEN Response(200, [chart_url |-> chart_type])
      ELSE Response(400, [error |-> "Invalid chart type"])

\* The mapping get_basic_analytics returns for a frame with records.
basic_analytics(d) ==
  [data_period |-> "index.min to index.max",
   total_trading_days |-> Grouped(len(d)),
   average_volume |-> "Volume.mean",
   price_range |-> <<Dollars(min(d["Close"])), " - ", Dollars(max(d["Close"]))>>,
   total_return |->
     Fmt("", Mul(Sub(Div(Last(d["Close"]), d["Close"][1]), One), Num(100)), 1, "%"),
   current_price |-> Dollars(Last(d["Close"])),
   \* std() * sqrt(252) * 100, kept as the variance
   volatility |-> Unformatted(".1f%", var(pct_change(d["Close"])))]

\* A get_basic_analytics that keeps the daily returns it computes for the
\* volatility as a column of the frame.
get_basic_analytics_keeping_returns(d) ==
  IF d = None \/ len(d) = 0 THEN Nothing(d)
  ELSE Outcome(with_Daily_Return(d), FALSE, EmptyDict, basic_analytics(d))

\* app_with_analytics.py get_basic_analytics, on the module-level frame: the
\* frame as the call leaves it and the mapping returned.
get_basic_analytics(d) ==
  IF d = None \/ len(d) = 0 THEN Nothing(d)
  ELSE Outcome(d, FALSE, EmptyDict, basic_analytics(d))

\* app_with_analytics.py /api/analytics
api_analytics_basic(d) == Response(200, get_basic_analytics(d).out)

\* app_with_analytics.py /dashboard: the page with the mapping, or the
\* answer of errorhandler(500) when the template fails.
dashboard_basic(d, exception) ==
  IF exception = ""
  THEN Response(200, [page |-> "dashboard.html",
                      analytics |-> get_basic_analytics(d).out])
  ELSE InternalError

-----------------------------------------------------------------------------
(* Inputs.  Close values are small positive integers; the series are the   *)
(* short ones, constant ones around each window length, a constant prefix  *)
(* followed by a short free tail, and two-level series that fall and rise  *)
(* (or rise and fall) so that the moving averages cross.                   *)

MaxPrice == 3
MaxShort == 3
MaxExtra == 1
PrefixLen == 12
RunA == 5
RunB == 46
MaxRunC == 3

Prices == {Num(p) : p \in 1..MaxPrice}

Rep(x, n) == [i \in 1..n |-> x]

ShortSeries == UNION {[1..n -> Prices] : n \in 1..MaxShort}

Windows == {RSI_WINDOW, SMA_20_WINDOW, SMA_50_WINDOW, SMA_200_WINDOW}

\* The lowest and the highest price.
Ends == {Num(1), Num(MaxPrice)}

EndSeries == UNION {[1..n -> Ends] : n \in 1..MaxShort}

ConstSeries ==
  {Rep(p, w + e) : p \in Ends, w \in Windows, e \in (0 - 1)..MaxExtra}

TailedSeries == {Rep(p, PrefixLen) \o t : p \in Ends, t \in EndSeries}

CrossSeries ==
  UNION {{Rep(a, RunA) \o Rep(b, n2) \o Rep(a, n3) :
            n2 \in (RunB - 1)..RunB, n3 \in 0..MaxRunC} :
         a \in Ends, b \in Ends}

Series == ShortSeries \cup ConstSeries \cup TailedSeries \cup CrossSeries

Sources ==
  {[readable |-> TRUE, rows |-> r] : r \in Series}
    \cup {[readable |-> FALSE, rows |-> <<>>]}

Modules == {"app", "comprehensive_analytics", "app_with_analytics", "api_index"}

\* What np.percentile may do with the returns of the source: with no return
\* at all (a single record) it raises or returns nan, depending on the numpy
\* version; otherwise it returns.
EmptyOutcomes(src) == IF Len(src.rows) < 2 THEN BOOLEAN ELSE {FALSE}

RequestTypes == ChartTypes \cup {"unknown", "PRICE"}

\* app_with_analytics.py builds its frame at import (create_sample_data): a
\* generated price series, here one of the bounded series.
create_sample_data(src) == [None EXCEPT !["Close"] = src.rows]

\* An empty working directory.
NoFiles == {}

\* No script of the repository imports config.py.
NotImported == [name \in {} |-> 0]

\* No figure is open when the process starts.
NoFigures == <<>>

\* An environment that sets none of the variables config.py reads.
NotSet == [name \in {} |-> <<>>]

NoCall == [fn |-> "", raised |-> FALSE, vals |-> EmptyDict, out |-> EmptyDict]

Call(fn, o) == [fn |-> fn, raised |-> o.raised, vals |-> o.vals, out |-> o.out]

Init ==
  /\ source \in Sources
  /\ module \in Modules
  /\ module = "app_with_analytics" => source.readable
  /\ module = "api_index" => ~source.readable
  /\ df = IF module = "app_with_analytics" THEN create_sample_data(source) ELSE None
  /\ pc = IF module = "comprehensive_analytics" THEN "load" ELSE "serving"
  /\ last = NoCall
  /\ resp = NoResponse
  /\ pyplot = NoFigures
  /\ environ = NotSet
  /\ fs = NoFiles
  /\ config = NotImported

-----------------------------------------------------------------------------
(* comprehensive_analytics.main: the calls in program order; an exception  *)
(* ends the run.                                                           *)

Step(fn, o, next) ==
  /\ df' = o.df
  /\ last' = Call(fn, o)
  /\ pc' = IF o.raised THEN "failed" ELSE next
  /\ UNCHANGED <<source, module, resp, pyplot, environ, fs, config>>

MainLoad ==
  /\ module = "comprehensive_analytics" /\ pc = "load"
  /\ Step("load_data",
          Outcome(load_data(source), ~source.readable, EmptyDict, EmptyDict),
          "descriptive_analytics")

MainDescriptive ==
  /\ module = "comprehensive_analytics" /\ pc = "descriptive_analytics"
  /\ Step("descriptive_analytics", descriptive_printed(df), "performance_analytics")

MainPerformance ==
  /\ module = "comprehensive_analytics" /\ pc = "performance_analytics"
  /\ Step("performance_analytics", performance_printed(df), "technical_analysis")

MainTechnical ==
  /\ module = "comprehensive_analytics" /\ pc = "technical_analysis"
  /\ Step("technical_analysis", technical_analysis(df), "risk_analytics")

MainRisk ==
  /\ module = "comprehensive_analytics" /\ pc = "risk_analytics"
  /\ \E emptyRaises \in EmptyOutcomes(source) :
       Step("risk_analytics", risk_analytics_comprehensive(df, emptyRaises),
            "time_series_analysis")

MainTimeSeries ==
  /\ module = "comprehensive_analytics" /\ pc = "time_series_analysis"
  /\ \E raises \in BOOLEAN :
       Step("time_series_analysis", time_series_analysis(df, raises),
            "volatility_analysis")

MainVolatility ==
  /\ module = "comprehensive_analytics" /\ pc = "volatility_analysis"
  /\ Step("volatility_analysis", volatility_analysis(df), "predictive_analytics")

MainPredictive ==
  /\ module = "comprehensive_analytics" /\ pc = "predictive_analytics"
  /\ Step("predictive_analytics", predictive_analytics(df),
          "trading_strategy_analysis")

MainStrategy ==
  /\ module = "comprehensive_analytics" /\ pc = "trading_strategy_analysis"
  /\ Step("trading_strategy_analysis", trading_strategy_analysis(df),
          "market_sentiment_analysis")

MainSentiment ==
  /\ module = "comprehensive_analytics" /\ pc = "market_sentiment_analysis"
  /\ Step("market_sentiment_analysis", market_sentiment_analysis(df),
          "market_regime_analysis")

MainRegime ==
  /\ module = "comprehensive_analytics" /\ pc = "market_regime_analysis"
  /\ Step("market_regime_analysis", market_regime_analysis(df),
          "correlation_analysis")

MainCorrelation ==
  /\ module = "comprehensive_analytics" /\ pc = "correlation_analysis"
  /\ Step("correlation_analysis", correlation_analysis(df),
          "performance_benchmarking")

MainBenchmarking ==
  /\ module = "comprehensive_analytics" /\ pc = "performance_benchmarking"
  /\ \E market_returns \in normal(Len(dropna(pct_change(df["Close"])))) :
       Step("performance_benchmarking",
            performance_benchmarking(df, market_returns), "done")

-----------------------------------------------------------------------------
(* Web requests.  A handler of app.py loads its own frame and leaves the   *)
(* program's state alone; only the response is new.                        *)

ApiAnalytics ==
  /\ module = "app"
  /\ \E emptyRaises \in EmptyOutcomes(source) :
       resp' = Answer("/api/analytics", "", api_analytics(source, emptyRaises))
  /\ UNCHANGED <<source, module, df, pc, last, pyplot, environ, fs, config>>

ApiChart ==
  /\ module = "app"
  /\ \E chart_type \in RequestTypes :
       resp' = Answer("/api/chart", chart_type, api_chart(source, chart_type))
  /\ UNCHANGED <<source, module, df, pc, last, pyplot, environ, fs, config>>

Dashboard ==
  /\ module = "app"
  /\ \E emptyRaises \in EmptyOutcomes(source) :
       resp' = Answer("/dashboard", "", dashboard(source, emptyRaises))
  /\ UNCHANGED <<source, module, df, pc, last, pyplot, environ, fs, config>>

AppPage ==
  /\ module \in {"app", "app_with_analytics"}
  /\ \E page \in Pages \ {"dashboard"}, exception \in Exceptions \cup {""} :
       resp' = Answer(PageRoute[page], "", app_page(page, exception))
  /\ UNCHANGED <<source, module, df, pc, last, pyplot, environ, fs, config>>

IndexPage ==
  /\ module = "api_index"
  /\ \E page \in Pages, exception \in Exceptions \cup {""} :
       resp' = Answer(PageRoute[page], "", index_page(page, exception))
  /\ UNCHANGED <<source, module, df, pc, last, pyplot, environ, fs, config>>

ApiAnalyticsBasic ==
  /\ module = "app_with_analytics"
  /\ resp' = Answer("/api/analytics", "", api_analytics_basic(df))
  /\ df' = get_basic_analytics(df).df
  /\ UNCHANGED <<source, module, pc, last, pyplot, environ, fs, config>>

DashboardBasic ==
  /\ module = "app_with_analytics"
  /\ \E exception \in Exceptions \cup {""} :
       resp' = Answer("/dashboard", "", dashboard_basic(df, exception))
  /\ df' = get_basic_analytics(df).df
  /\ UNCHANGED <<source, module, pc, last, pyplot, environ, fs, config>>

Next ==
  \/ MainLoad \/ MainDescriptive \/ MainPerformance \/ MainTechnical
  \/ MainRisk \/ MainTimeSeries \/ MainVolatility \/ MainPredictive
  \/ MainStrategy \/ MainSentiment \/ MainRegime \/ MainCorrelation
  \/ MainBenchmarking
  \/ ApiAnalytics \/ ApiChart \/ Dashboard
  \/ ApiAnalyticsBasic \/ DashboardBasic
  \/ AppPage \/ IndexPage

Spec == Init /\ [][Next]_vars

-----------------------------------------------------------------------------
(* The aggregators as a library: on one loaded frame, any of them may be   *)
(* called next, in any order, any number of times.                         *)

CallSources == {[readable |-> TRUE, rows |-> r] : r \in ShortSeries}

\* The environment of the run: RISK_FREE_RATE not set, or set to "0.05".
Environments == {NotSet, [name \in {"RISK_FREE_RATE"} |-> <<5, 2>>]}

InitCalls ==
  /\ source \in CallSources
  /\ module \in {"app", "comprehensive_analytics"}
  /\ df = load_data(source)
  /\ pc = "calls"
  /\ last = NoCall
  /\ resp = NoResponse
  /\ pyplot = NoFigures
  /\ environ \in Environments
  /\ fs = NoFiles
  /\ config = NotImported

Called(fn, o) ==
  /\ df' = o.df
  /\ last' = Call(fn, o)
  /\ UNCHANGED <<source, module, pc, resp, pyplot, environ, fs, config>>

CallDescriptive ==
  \/ /\ module = "app"
     /\ Called("descriptive_analytics", descriptive_analytics(df))
  \/ /\ module = "comprehensive_analytics"
     /\ Called("descriptive_analytics", descriptive_printed(df))

CallPerformance ==
  \/ /\ module = "app"
     /\ Called("performance_analytics", performance_analytics(df))
  \/ /\ module = "comprehensive_analytics"
     /\ Called("performance_analytics", performance_printed(df))

CallTechnical ==
  \/ /\ module = "app"
     /\ Called("technical_analytics", technical_analytics(df))
  \/ /\ module = "comprehensive_analytics"
     /\ Called("technical_analysis", technical_analysis(df))

CallRisk ==
  \E emptyRaises \in EmptyOutcomes(source) :
    \/ /\ module = "app"
       /\ Called("risk_analytics", risk_analytics(df, emptyRaises))
    \/ /\ module = "comprehensive_analytics"
       /\ Called("risk_analytics", risk_analytics_comprehensive(df, emptyRaises))

CallPredictive ==
  /\ module = "comprehensive_analytics"
  /\ Called("predictive_analytics", predictive_analytics(df))

CallRegime ==
  /\ module = "comprehensive_analytics"
  /\ Called("market_regime_analysis", market_regime_analysis(df))

NextCalls ==
  \/ CallDescriptive \/ CallPerformance \/ CallTechnical
  \/ CallRisk \/ CallPredictive \/ CallRegime

SpecCalls == InitCalls /\ [][NextCalls]_vars

-----------------------------------------------------------------------------
(* performance_analytics in float64, on short series of whole prices       *)
(* around 100.                                                             *)

MaxFloatLen == 4

FloatPrices == {Num(100), Num(101), Num(102), Num(105)}

FloatSources ==
  {[readable |-> TRUE, rows |-> r] :
     r \in UNION {[1..n -> FloatPrices] : n \in 1..MaxFloatLen}}

InitF ==
  /\ source \in FloatSources
  /\ module = "app"
  /\ df = load_data(source)
  /\ pc = "float"
  /\ last = NoCall
  /\ resp = NoResponse
  /\ pyplot = NoFigures
  /\ environ = NotSet
  /\ fs = NoFiles
  /\ config = NotImported

FloatPerformance ==
  /\ pc = "float"
  /\ last.fn = ""
  /\ df' = performance_analytics64(df).df
  /\ last' = Call("performance_analytics", performance_analytics64(df))
  /\ UNCHANGED <<source, module, pc, resp, pyplot, environ, fs, config>>

NextF == FloatPerformance

SpecF == InitF /\ [][NextF]_vars

-----------------------------------------------------------------------------
(* Loading.  load_data on a workbook of a few rows, well-formed or not, in *)
(* any order of dates.                                                     *)

MaxRows == 2
MaxDay == 2

Cells ==
  [date : 0..MaxDay,
   close : 0..1,
   fields : {FIELDS - 3, FIELDS, FIELDS + 1}]

Files ==
  {[exists |-> TRUE, cells |-> c] : c \in UNION {[1..n -> Cells] : n \in 0..MaxRows}}
    \cup {[exists |-> FALSE, cells |-> <<>>]}

InitLoad ==
  /\ source \in Files
  /\ module \in {"app", "comprehensive_analytics", "generate_reports"}
  /\ df = None
  /\ pc = "load"
  /\ last = NoCall
  /\ resp = NoResponse
  /\ pyplot = NoFigures
  /\ environ = NotSet
  /\ fs = NoFiles
  /\ config = NotImported

\* What load_data leaves: the frame, whether the call raised, and the index
\* of the frame.
Loaded(src, raises) ==
  Outcome(load_data(src), raises /\ ~src.readable, [index |-> src.index], EmptyDict)

\* app.py: load_data returns None on any failure.
LoadApp ==
  /\ module = "app" /\ pc = "load"
  /\ Step("load_data", Loaded(read_source(source), FALSE), "loaded")

\* comprehensive_analytics.py, generate_reports.py: the failure is raised.
LoadScript ==
  /\ module # "app" /\ pc = "load"
  /\ Step("load_data", Loaded(read_source(source), TRUE), "loaded")

NextLoad == LoadApp \/ LoadScript

SpecLoad == InitLoad /\ [][NextLoad]_vars

-----------------------------------------------------------------------------
(* Concurrent chart requests.  Flask serves each request of app.py in a    *)
(* thread of the one process; the chart functions draw through             *)
(* matplotlib.pyplot, whose figures belong to the process: plt.figure()    *)
(* opens a figure and makes it the current one, the drawing calls          *)
(* (plt.plot, plt.bar, plt.hist, plt.fill_between, plt.title, ...) and     *)
(* plt.savefig act on the current figure, opening one when there is none,  *)
(* and plt.close() closes the current figure.  A figure is modelled as the *)
(* set of charts drawn on it, an image as the figure it was saved from.    *)
(* The threads may be switched between any two of these calls.             *)

MaxRequests == 2

Requests == 1..MaxRequests

\* plt.figure(...)
figure(figs) == Append(figs, {})

\* plt.gcf(): the figures with a current one among them.
gcf(figs) == IF figs = <<>> THEN figure(figs) ELSE figs

\* plt.plot(...) and the other drawing calls of the chart named chart.
plot(figs, chart) == [gcf(figs) EXCEPT ![Len(gcf(figs))] = @ \cup {chart}]

\* The image plt.savefig(img, ...) writes.
savefig(figs) == Last(gcf(figs))

\* plt.close()
close(figs) == IF figs = <<>> THEN figs ELSE SubSeq(figs, 1, Len(figs) - 1)

\* Each request is GET /api/chart/<chart_type> for a known type, on a source
\* that loads; it is about to call its chart function.
InitCharts ==
  /\ source \in {src \in CallSources : Len(src.rows) = 1}
  /\ module = "app"
  /\ df = load_data(source)
  /\ pc = [r \in Requests |-> "figure"]
  /\ last = NoCall
  /\ \E types \in [Requests -> ChartTypes] :
       resp = [r \in Requests |->
                 Answer("/api/chart", types[r], Response(0, EmptyDict))]
  /\ pyplot = NoFigures
  /\ environ = NotSet
  /\ fs = NoFiles
  /\ config = NotImported

ChartFigure(r) ==
  /\ pc[r] = "figure"
  /\ pyplot' = figure(pyplot)
  /\ pc' = [pc EXCEPT ![r] = "plot"]
  /\ UNCHANGED <<source, module, df, last, resp, environ, fs, config>>

ChartPlot(r) ==
  /\ pc[r] = "plot"
  /\ pyplot' = plot(pyplot, resp[r].arg)
  /\ pc' = [pc EXCEPT ![r] = "savefig"]
  /\ UNCHANGED <<source, module, df, last, resp, environ, fs, config>>

\* plt.savefig(img, ...): img is the chart_url the handler will return.
ChartSavefig(r) ==
  /\ pc[r] = "savefig"
  /\ pyplot' = gcf(pyplot)
  /\ resp' = [resp EXCEPT ![r].body = [chart_url |-> savefig(pyplot)]]
  /\ pc' = [pc EXCEPT ![r] = "close"]
  /\ UNCHANGED <<source, module, df, last, environ, fs, config>>

\* plt.close(); return plot_url, and api_chart returns it with status 200.
ChartClose(r) ==
  /\ pc[r] = "close"
  /\ pyplot' = close(pyplot)
  /\ resp' = [resp EXCEPT ![r].status = 200]
  /\ pc' = [pc EXCEPT ![r] = "done"]
  /\ UNCHANGED <<source, module, df, last, environ, fs, config>>

NextCharts ==
  \E r \in Requests :
    ChartFigure(r) \/ ChartPlot(r) \/ ChartSavefig(r) \/ ChartClose(r)

SpecCharts == InitCharts /\ [][NextCharts]_vars

-----------------------------------------------------------------------------
(* generate_reports.py: the directory setup at import, then main, which    *)
(* loads the table and calls the eight report functions in order; each     *)
(* computes its metrics, saves its chart under reports/charts and writes   *)
(* its text under reports; main then writes the summary.  An exception     *)
(* ends the run.  A path is the sequence of its parts.                     *)

ReportNames ==
  <<"01_descriptive_analytics", "02_performance_analytics",
    "03_technical_analytics", "04_risk_analytics",
    "05_time_series_analytics", "06_volatility_analytics",
    "07_predictive_analytics", "08_trading_strategy_analytics">>

REPORTS == <<"reports">>

CHARTS == <<"reports", "charts">>

chart_file(k) == CHARTS \o <<ReportNames[k], "png">>

text_file(k) == REPORTS \o <<ReportNames[k], "txt">>

SUMMARY_REPORT == REPORTS \o <<"SUMMARY_REPORT", "txt">>

\* if not os.path.exists('reports'):
\*     os.makedirs('reports'); os.makedirs('reports/charts')
directory_setup(paths) ==
  IF REPORTS \notin paths THEN paths \cup {REPORTS, CHARTS} ELSE paths

\* What the k-th report function computes, up to its chart.
report_function(k, d, emptyRaises, raises) ==
  CASE k = 1 -> descriptive_printed(d)
    [] k = 2 -> performance_printed(d)
    [] k = 3 -> technical_analysis(d)
    [] k = 4 -> risk_analytics(d, emptyRaises)
    [] k = 5 -> time_series_analysis(d, raises)
    [] k = 6 -> volatility_analysis(d)
    [] k = 7 -> predictive_analytics(d)
    [] k = 8 -> trading_strategy_analysis(d)

\* Where main goes once the k-th report function has returned.
after_report_but_last(k) ==
  IF k < Len(ReportNames) - 1 THEN [at |-> "chart", k |-> k + 1]
  ELSE [at |-> "summary", k |-> 0]

after_report(k) ==
  IF k < Len(ReportNames) THEN [at |-> "chart", k |-> k + 1]
  ELSE [at |-> "summary", k |-> 0]

Failed == [at |-> "failed", k |-> 0]

\* The working directory before the run: without reports, with reports
\* only, or with both directories; no report file yet.
InitReports ==
  /\ source \in CallSources \cup {[readable |-> FALSE, rows |-> <<>>]}
  /\ module = "generate_reports"
  /\ df = None
  /\ pc = [at |-> "import", k |-> 0]
  /\ last = NoCall
  /\ resp = NoResponse
  /\ pyplot = NoFigures
  /\ environ = NotSet
  /\ fs \in {NoFiles, {REPORTS}, {REPORTS, CHARTS}}
  /\ config = NotImported

ReportImport ==
  /\ pc.at = "import"
  /\ fs' = directory_setup(fs)
  /\ pc' = [at |-> "load", k |-> 0]
  /\ UNCHANGED <<source, module, df, last, resp, pyplot, environ, config>>

ReportLoad ==
  /\ pc.at = "load"
  /\ df' = load_data(source)
  /\ last' = Call("load_data", Outcome(df', ~source.readable, EmptyDict, EmptyDict))
  /\ pc' = IF source.readable THEN [at |-> "chart", k |-> 1] ELSE Failed
  /\ UNCHANGED <<source, module, resp, pyplot, environ, fs, config>>

\* The report function up to plt.savefig, which raises when reports/charts
\* does not exist.
ReportChart ==
  /\ pc.at = "chart"
  /\ \E emptyRaises \in EmptyOutcomes(source), raises \in BOOLEAN :
       \E o \in {report_function(pc.k, df, emptyRaises, raises)} :
         /\ df' = o.df
         /\ last' = Call(ReportNames[pc.k], o)
         /\ IF o.raised \/ CHARTS \notin fs
            THEN pc' = Failed /\ fs' = fs
            ELSE pc' = [pc EXCEPT !.at = "text"] /\ fs' = fs \cup {chart_file(pc.k)}
  /\ UNCHANGED <<source, module, resp, pyplot, environ, config>>

\* with open('reports/<name>.txt', 'w') as f: ...; return
ReportText ==
  /\ pc.at = "text"
  /\ IF REPORTS \notin fs
     THEN pc' = Failed /\ fs' = fs
     ELSE pc' = after_report(pc.k) /\ fs' = fs \cup {text_file(pc.k)}
  /\ UNCHANGED <<source, module, df, last, resp, pyplot, environ, config>>

ReportSummary ==
  /\ pc.at = "summary"
  /\ IF REPORTS \notin fs
     THEN pc' = Failed /\ fs' = fs
     ELSE pc' = [at |-> "done", k |-> 0] /\ fs' = fs \cup {SUMMARY_REPORT}
  /\ UNCHANGED <<source, module, df, last, resp, pyplot, environ, config>>

NextReports ==
  ReportImport \/ ReportLoad \/ ReportChart \/ ReportText \/ ReportSummary

SpecReports == InitReports /\ [][NextReports]_vars

-----------------------------------------------------------------------------
(* config.py run as a script: the import reads the environment into the    *)
(* module attributes and creates the report directories; then              *)
(* validate_config checks the attributes.  The SMA periods are the         *)
(* right-hand sides of lines 29-31, the values a deployment edits; the     *)
(* run is taken for every order of the three shipped values.               *)

DATA_PATH == <<"DevicesData.xlsx">>

\* int(text) of the text of an integer, kept as <<digits, 0>>.
int(text) == text[1]

Getenv(env, name, default) == IF name \in DOMAIN env THEN env[name] ELSE default

Periods == {SMA_20_WINDOW, SMA_50_WINDOW, SMA_200_WINDOW}

\* RISK_FREE_RATE unset, "0.05" or "1.50"; CHART_DPI unset or "0".
ConfigEnvironments ==
  {NotSet,
   [name \in {"RISK_FREE_RATE"} |-> <<5, 2>>],
   [name \in {"RISK_FREE_RATE"} |-> <<150, 2>>],
   [name \in {"CHART_DPI"} |-> <<0, 0>>]}

\* The module attributes validate_config reads.
config_module(env, short, medium, long) ==
  [RISK_FREE_RATE |-> RISK_FREE_RATE(env),
   TRADING_DAYS_PER_YEAR |-> TRADING_DAYS,
   SMA_SHORT_PERIOD |-> short,
   SMA_MEDIUM_PERIOD |-> medium,
   SMA_LONG_PERIOD |-> long,
   CHART_DPI |-> int(Getenv(env, "CHART_DPI", <<300, 0>>))]

\* directory.mkdir(parents=True, exist_ok=True) for reports and charts.
ensure_directories(paths) == paths \cup {REPORTS, CHARTS}

Check(failed, message) == IF failed THEN <<message>> ELSE <<>>

\* The error messages validate_config collects.  The last test is the
\* chained comparison short >= medium >= long.
validation_errors(cfg, paths) ==
  Check(DATA_PATH \notin paths, "Data file not found")
  \o Check(~(Le(Zero, cfg.RISK_FREE_RATE) /\ Le(cfg.RISK_FREE_RATE, One)),
           "RISK_FREE_RATE must be between 0 and 1")
  \o Check(cfg.TRADING_DAYS_PER_YEAR <= 0, "TRADING_DAYS_PER_YEAR must be positive")
  \o Check(cfg.CHART_DPI <= 0, "CHART_DPI must be positive")
  \o Check(cfg.SMA_SHORT_PERIOD >= cfg.SMA_MEDIUM_PERIOD
             /\ cfg.SMA_MEDIUM_PERIOD >= cfg.SMA_LONG_PERIOD,
           "SMA periods must be in ascending order")

\* raise ValueError if there are errors, else return True.
validate_config(cfg, paths) ==
  Let1(validation_errors(cfg, paths),
       LAMBDA errors :
         Outcome(None, errors # <<>>, EmptyDict,
                 [errors |-> errors, returned |-> errors = <<>>]))

InitConfig ==
  /\ source = [readable |-> FALSE, rows |-> <<>>]
  /\ module = "config"
  /\ df = None
  /\ pc = [at |-> "import", k |-> 0]
  /\ last = NoCall
  /\ resp = NoResponse
  /\ pyplot = NoFigures
  /\ environ \in ConfigEnvironments
  /\ fs \in {NoFiles, {DATA_PATH}, {DATA_PATH, REPORTS}}
  /\ config = NotImported

ConfigImport ==
  /\ pc.at = "import"
  /\ \E short \in Periods, medium \in Periods, long \in Periods :
       config' = config_module(environ, short, medium, long)
  /\ fs' = ensure_directories(fs)
  /\ pc' = [at |-> "validate", k |-> 0]
  /\ UNCHANGED <<source, module, df, last, resp, pyplot, environ>>

ConfigValidate ==
  /\ pc.at = "validate"
  /\ last' = Call("validate_config", validate_config(config, fs))
  /\ pc' = [at |-> "done", k |-> 0]
  /\ UNCHANGED <<source, module, df, resp, pyplot, environ, fs, config>>

NextConfig == ConfigImport \/ ConfigValidate

SpecConfig == InitConfig /\ [][NextConfig]_vars

-----------------------------------------------------------------------------
(* Properties.                                                             *)

AfterCall(fn) == last.fn = fn /\ ~last.raised

\* A 200 answer of app.py's /api/analytics.
AppAnalyticsOk ==
  module = "app" /\ resp.route = "/api/analytics" /\ resp.status = 200

IsConstant(s) == \A i \in 1..Len(s) : s[i] = s[1]

\* C1: once performance_analytics has run on N >= 1 records (N = 1
\* included), the last cumulative return equals the returned total return
\* plus 1.
C1_LastCumulativeIsTotalPlusOne ==
  AfterCall("performance_analytics") =>
    Eq(Last(df["Cumulative_Return"]), Add(last.vals.total_return, One))

\* C3: after performance_analytics the cumulative return is 1 at the first
\* record and close[t] / close[0] at every later one, and the total return
\* is close[N-1] / close[0] - 1.
C3_CumulativeIsCloseOverFirst ==
  AfterCall("performance_analytics") =>
    /\ Eq(df["Cumulative_Return"][1], One)
    /\ \A t \in 2..len(df) :
         Eq(df["Cumulative_Return"][t], Div(df["Close"][t], df["Close"][1]))
    /\ Eq(last.vals.total_return, Sub(Div(Last(df["Close"]), df["Close"][1]), One))

\* The worked example of the performance metrics.
ExampleCloses == <<Num(100), Num(102), Num(101), Num(105)>>

ExampleDone == AfterCall("performance_analytics") /\ source.rows = ExampleCloses

\* The double a decimal literal n/d denotes: the nearest to the real n/d.
Literal(n, d) == FDivInt(n, d)

\* C2 as stated: for the closes [100, 102, 101, 105] the daily return at
\* index 1 is exactly 0.02 and the cumulative return at index 3 is exactly
\* 1.05.
C2_ExactExample ==
  ExampleDone =>
    /\ df["Daily_Return"][2] = Literal(2, 100)
    /\ df["Cumulative_Return"][4] = Literal(105, 100)

\* C2, amended: for the closes [100, 102, 101, 105] the daily return at
\* index 1 is not the double 0.02 but lies within 2^-52 above it, and the
\* cumulative return at index 3 is exactly the double 1.05, the total return
\* being that value minus 1.
C2_ExampleUpToRounding ==
  ExampleDone =>
    /\ df["Daily_Return"][2] # Literal(2, 100)
    /\ FLe(Literal(2, 100), df["Daily_Return"][2])
    /\ FLe(FSub(df["Daily_Return"][2], Literal(2, 100)), FPow2(1 - Precision))
    /\ df["Cumulative_Return"][4] = Literal(105, 100)
    /\ last.vals.total_return = FSub(Literal(105, 100), FFromInt(1))

C2_Witness ==
  /\ ExampleDone
  /\ df["Cumulative_Return"][4] = Literal(105, 100)
  /\ df["Daily_Return"][2] # Literal(2, 100)

SMAColumns ==
  {<<"SMA_20", SMA_20_WINDOW>>, <<"SMA_50", SMA_50_WINDOW>>, <<"SMA_200", SMA_200_WINDOW>>}

\* The value a moving average of window w has at the last of n records of
\* the constant c.
ConstantSMA(c, n, w) == IF n < w THEN NaN ELSE c

\* C4: on a constant close series every moving average (20, 50, 200) is
\* missing at the first N-1 records and equals the constant from the N-th
\* record on, in the frame and in the values /api/analytics returns.
C4_ConstantSMA ==
  /\ IsConstant(df["Close"]) =>
       \A cw \in SMAColumns :
         HasCol(df, cw[1]) =>
           \A i \in 1..len(df) :
             df[cw[1]][i] = ConstantSMA(df["Close"][1], i, cw[2])
  /\ (AppAnalyticsOk /\ IsConstant(source.rows)) =>
       /\ resp.body.technical.sma_20
            = Dollars(ConstantSMA(source.rows[1], Len(source.rows), SMA_20_WINDOW))
       /\ resp.body.technical.sma_50
            = Dollars(ConstantSMA(source.rows[1], Len(source.rows), SMA_50_WINDOW))

C4_Witness ==
  /\ IsConstant(df["Close"])
  /\ len(df) > SMA_200_WINDOW
  /\ \A cw \in SMAColumns :
       /\ HasCol(df, cw[1])
       /\ df[cw[1]][cw[2] - 1] = NaN
       /\ Eq(df[cw[1]][cw[2]], df["Close"][1])
       /\ Eq(Last(df[cw[1]]), df["Close"][1])

InRSIRange(x) == x # NaN => Ge(x, Zero) /\ Le(x, Num(100))

\* A value formatted to one decimal is nan or lies between 0.0 and 100.0.
ReportedInRSIRange(f) == f[2] = "nan" \/ (f[2] = "" /\ f[3] \in 0..1000)

\* C5: wherever the RSI is defined it lies between 0 and 100, in the RSI
\* column of the frame and in the value /api/analytics returns.
C5_RSIRange ==
  /\ HasCol(df, "RSI") => \A i \in 1..len(df) : InRSIRange(df["RSI"][i])
  /\ AppAnalyticsOk => ReportedInRSIRange(resp.body.technical.rsi)

C5_Witness ==
  /\ HasCol(df, "RSI")
  /\ \E i \in 1..len(df) : Eq(df["RSI"][i], Num(100))
  /\ \E i \in 1..len(df) : Gt(df["RSI"][i], Zero) /\ Lt(df["RSI"][i], Num(100))

\* max_drawdown is the minimum of the drawdown series dd, none of whose
\* values is positive.
DrawdownOk(dd, max_drawdown) ==
  /\ \A i \in 1..Len(dd) : Le(dd[i], Zero)
  /\ dd # <<>> =>
       /\ \E i \in 1..Len(dd) : dd[i] = max_drawdown
       /\ \A i \in 1..Len(dd) : Le(max_drawdown, dd[i])

\* A formatted percentage that is nan, negative or zero.
ReportedNonPositive(f) == f[2] \in {"nan", "-"} \/ (f[2] = "" /\ f[3] = 0)

\* C6: for positive closes every value of the drawdown series risk_analytics
\* forms is at most 0 and its max drawdown is the minimum of the series; the
\* max drawdown /api/analytics reports is that minimum, never positive.
C6_DrawdownNonPositive ==
  /\ AfterCall("risk_analytics") =>
       /\ Len(last.vals.drawdown) = len(df) - 1
       /\ DrawdownOk(last.vals.drawdown, last.vals.max_drawdown)
  /\ AppAnalyticsOk =>
       /\ ReportedNonPositive(resp.body.risk.max_drawdown)
       /\ \E m \in {min(drawdown_series(dropna(pct_change(source.rows))))} :
            /\ resp.body.risk.max_drawdown = Percent(m)
            /\ DrawdownOk(drawdown_series(dropna(pct_change(source.rows))), m)

C6_Witness ==
  /\ AfterCall("risk_analytics")
  /\ Lt(last.vals.max_drawdown, Zero)
  /\ \E i \in 1..Len(last.vals.drawdown) : last.vals.drawdown[i] = Zero

\* The 20-record average is below the 50-record one at record i.
Below(i) == i >= 1 /\ Lt(df["SMA_20"][i], df["SMA_50"][i])
Above(i) == i >= 1 /\ Gt(df["SMA_20"][i], df["SMA_50"][i])

\* C7: predictive_analytics reports the golden cross when the 20-record
\* average was below the 50-record one at the second-to-last record and is
\* above it at the last, and the death cross in the mirrored case.
C7_CrossLabels ==
  AfterCall("predictive_analytics") =>
    /\ (Below(len(df) - 1) /\ Above(len(df))) =>
         last.vals.prediction = "GOLDEN CROSS - Bullish signal"
    /\ (Above(len(df) - 1) /\ Below(len(df))) =>
         last.vals.prediction = "DEATH CROSS - Bearish signal"

C7_Witness ==
  /\ AfterCall("predictive_analytics")
  /\ Below(len(df) - 1)
  /\ Above(len(df))
  /\ last.vals.prediction = "GOLDEN CROSS - Bullish signal"

AnalyticsGroups == {"descriptive", "performance", "technical", "risk"}

\* C8: when the data can be loaded, /api/analytics answers with a mapping
\* whose keys are exactly descriptive, performance, technical and risk, each
\* a non-empty mapping, in every web module that serves the route.
C8_AnalyticsGroups ==
  (resp.route = "/api/analytics" /\ source.readable) =>
    /\ resp.status = 200
    /\ DOMAIN resp.body = AnalyticsGroups
    /\ \A k \in AnalyticsGroups : DOMAIN resp.body[k] # {}

\* C9: /api/chart/<chart_type> with a chart type that is none of the known
\* ones is answered with a 4xx status, whether or not the data loads.
C9_UnknownChartType4xx ==
  (resp.route = "/api/chart" /\ resp.arg \notin ChartTypes) =>
    resp.status \in 400..499

C9_Witness ==
  /\ resp.route = "/api/chart"
  /\ resp.arg \notin ChartTypes
  /\ source.readable
  /\ resp.status = 400

\* What the aggregator fn of the module can give on the frame as loaded,
\* before any other aggregator ran.
OnLoaded(fn) ==
  LET d0 == load_data(source)
  IN  CASE fn = "descriptive_analytics" ->
             {IF module = "app" THEN descriptive_analytics(d0)
              ELSE descriptive_printed(d0)}
        [] fn = "performance_analytics" ->
             {IF module = "app" THEN performance_analytics(d0)
              ELSE performance_printed(d0)}
        [] fn = "technical_analytics" -> {technical_analytics(d0)}
        [] fn = "technical_analysis" -> {technical_analysis(d0)}
        [] fn = "risk_analytics" ->
             {IF module = "app" THEN risk_analytics(d0, e)
              ELSE risk_analytics_comprehensive(d0, e) : e \in EmptyOutcomes(source)}
        [] fn = "predictive_analytics" -> {predictive_analytics(d0)}
        [] fn = "market_regime_analysis" -> {market_regime_analysis(d0)}

\* C10: whatever aggregators ran before, an aggregator gives what it gives
\* on the frame as loaded; in particular risk_analytics does so without
\* performance_analytics before it.
C10_OrderInsensitive ==
  last.fn # "" => \E o \in OnLoaded(last.fn) : last = Call(last.fn, o)

\* C11: no aggregator updates the loaded table in place: after any call the
\* frame has the columns and the values load_data gave it.
C11_NoUpdateInPlace ==
  last.fn \notin {"", "load_data"} => df = load_data(source)

\* A load_data call that gave a frame.
LoadedFrame == last.fn = "load_data" /\ ~last.raised /\ df # None

\* C12: for every readable source, whatever the order of its rows, the
\* dates of the series load_data returns are strictly increasing.
C12_DatesStrictlyIncreasing ==
  LoadedFrame =>
    \A i \in 1..(Len(last.vals.index) - 1) :
      last.vals.index[i] < last.vals.index[i + 1]

\* C13: load_data fails exactly when the source cannot be opened or has no
\* row; a source with malformed rows loads, with one record per row.
C13_FailsOnlyUnreadableOrEmpty ==
  last.fn = "load_data" =>
    /\ (last.raised \/ df = None) <=> (~source.exists \/ source.cells = <<>>)
    /\ LoadedFrame => len(df) = Len(source.cells)

\* The endpoints of app.py that load the data.
DataRoutes == {"/dashboard", "/api/analytics", "/api/chart"}

\* C14: when the data source cannot be loaded, each data-backed endpoint of
\* app.py answers with status 404 or 500 (a status page or a JSON error
\* object), never with a success status.
C14_LoadFailureIsAnError ==
  (module = "app" /\ resp.route \in DataRoutes /\ ~source.readable) =>
    resp.status \in {404, 500}

\* C15: whatever the interleaving of concurrent chart requests, each answer
\* is the one the request gets when it runs alone: status 200 and the image
\* of its own chart, nothing else drawn on it.
C15_RequestsIndependent ==
  \A r \in Requests :
    pc[r] = "done" =>
      /\ resp[r].status = api_chart(source, resp[r].arg).status
      /\ resp[r].body.chart_url = {api_chart(source, resp[r].arg).body.chart_url}

\* C16: the Sharpe ratio of risk_analytics is formed with the configured
\* risk-free rate: its numerator is the mean of the daily returns less
\* RISK_FREE_RATE / 252, with RISK_FREE_RATE as the environment sets it
\* (0.02 when it sets none).
C16_ConfiguredRiskFreeRate ==
  AfterCall("risk_analytics") =>
    \E returns \in {dropna(pct_change(source.rows))} :
      last.vals.sharpe_ratio[1]
        = mean([i \in 1..Len(returns) |->
                  Sub(returns[i], Div(RISK_FREE_RATE(environ), Num(TRADING_DAYS)))])

\* C17: a web handler that meets an unexpected failure answers with a
\* generic page or text: nothing in the response is the text of the
\* exception.
C17_NoInternalDetail ==
  resp.status = 500 =>
    /\ "text" \in DOMAIN resp.body =>
         \A i \in 1..Len(resp.body.text) : resp.body.text[i] \notin Exceptions
    /\ "page" \in DOMAIN resp.body => resp.body.page \notin Exceptions

\* C18: no aggregator raises, however few records the series has (down to a
\* single one): each call returns, and /api/analytics of app.py answers 200
\* for every source that loads.
C18_AggregatorsNeverRaise ==
  /\ last.fn \notin {"", "load_data"} => ~last.raised
  /\ (module = "app" /\ resp.route = "/api/analytics" /\ source.readable) =>
       resp.status = 200

\* C19: a division by zero gives a defined value, never NaN: the RSI at
\* every record that has the averages of a full window behind it (average
\* loss 0, average gain 0 or not), and the Sharpe ratio when the variance of
\* the returns is 0.
C19_DivisionByZeroDefined ==
  /\ HasCol(df, "RSI") =>
       \A i \in RSI_WINDOW..len(df) : df["RSI"][i] # NaN
  /\ (AfterCall("risk_analytics") /\ last.vals.sharpe_ratio[2] = Zero) =>
       Div(last.vals.sharpe_ratio[1], Zero) # NaN

\* The last close of the series is strictly above the mean of its last 50
\* closes, which exists only when the series has 50 records.
AboveSMA50(closes) ==
  /\ Len(closes) >= SMA_50_WINDOW
  /\ Gt(Last(closes),
        mean(SubSeq(closes, Len(closes) - SMA_50_WINDOW + 1, Len(closes))))

\* C20: the technical signal is BULLISH exactly when the last close is
\* strictly above the last SMA(50), and BEARISH otherwise (equal values, or
\* fewer than 50 records); signal_color of app.py is green exactly when the
\* signal is BULLISH.  In main the printed signal begins with the same word.
C20_TechnicalSignal ==
  /\ AppAnalyticsOk =>
       /\ resp.body.technical.signal
            = IF AboveSMA50(source.rows) THEN "BULLISH" ELSE "BEARISH"
       /\ resp.body.technical.signal_color
            = IF AboveSMA50(source.rows) THEN "green" ELSE "red"
  /\ AfterCall("technical_analysis") =>
       last.out.signal = IF AboveSMA50(source.rows)
                         THEN "BULLISH (price above SMA)"
                         ELSE "BEARISH (price below SMA)"

C20_Witness ==
  /\ AppAnalyticsOk
  /\ AboveSMA50(source.rows)
  /\ resp.body.technical.signal = "BULLISH"
  /\ resp.body.technical.signal_color = "green"

\* The position the backtest takes at record s of the closes: +1 when the
\* close is above the mean of the 20 closes ending there, -1 otherwise and
\* wherever fewer than 20 closes exist.
Position(closes, s) ==
  IF s >= SMA_20_WINDOW
       /\ Gt(closes[s], mean(SubSeq(closes, s - SMA_20_WINDOW + 1, s)))
  THEN One ELSE Neg(One)

\* C21: in the strategy backtest the strategy return at record t >= 1 is
\* the position of record t-1 times the daily return of record t; the
\* position is +1 where the close is above SMA20 and -1 elsewhere, so it is
\* -1 at each of the first 19 records.
C21_StrategyReturnLagged ==
  last.fn = "trading_strategy_analysis" =>
    /\ \A s \in 1..len(df) : df["Signal"][s] = Position(df["Close"], s)
    /\ \A s \in 1..len(df) : s < SMA_20_WINDOW => df["Signal"][s] = Neg(One)
    /\ \A t \in 2..len(df) :
         df["Strategy_Return"][t]
           = Mul(Position(df["Close"], t - 1),
                 Sub(Div(df["Close"][t], df["Close"][t - 1]), One))

C21_Witness ==
  /\ AfterCall("trading_strategy_analysis")
  /\ \E t \in 2..len(df) :
       /\ df["Signal"][t - 1] = Neg(One)
       /\ df["Signal"][t] = One
       /\ Gt(df["Daily_Return"][t], Zero)
       /\ Lt(df["Strategy_Return"][t], Zero)

\* C22: in a run of generate_reports.main that starts without report files
\* the summary is written after the text report and the chart of all eight
\* categories: whenever SUMMARY_REPORT.txt exists, so do the eight text
\* reports and the eight charts.
C22_SummaryAfterAllReports ==
  SUMMARY_REPORT \in fs =>
    \A k \in 1..Len(ReportNames) : text_file(k) \in fs /\ chart_file(k) \in fs

C22_Witness ==
  /\ SUMMARY_REPORT \in fs
  /\ pc.at = "done"
  /\ Cardinality(fs) = 2 * Len(ReportNames) + 3

\* C29: after the directory setup of the import, reports and reports/charts
\* both exist, whatever existed before.
C29_DirectoriesExist ==
  (module = "generate_reports" /\ pc.at # "import") =>
    (REPORTS \in fs /\ CHARTS \in fs)

\* The number of decimal places of a formatted finite value.
Decimals(text) == text[4]

\* C23: every percentage is formatted with two decimal places: the
\* total_return that /api/analytics of app_with_analytics answers, a
\* percentage, has two decimals.
C23_TwoDecimalPercentages ==
  (/\ module = "app_with_analytics"
   /\ resp.route = "/api/analytics"
   /\ "total_return" \in DOMAIN resp.body)
    => Decimals(resp.body.total_return) = 2

Ascending(cfg) ==
  cfg.SMA_SHORT_PERIOD < cfg.SMA_MEDIUM_PERIOD
    /\ cfg.SMA_MEDIUM_PERIOD < cfg.SMA_LONG_PERIOD

\* C24: validate_config raises ValueError whenever the SMA periods are not
\* in ascending order (short < medium < long), and returns True only when
\* no check fails.
C24_RaisesUnlessAscending ==
  last.fn = "validate_config" =>
    /\ ~Ascending(config) => last.raised
    /\ last.out.returned => (~last.raised /\ last.out.errors = <<>>)

\* The largest peak-to-trough decline of the closes: the minimum over t of
\* close[t] / max(close[1..t]) - 1.
PeakToTrough(closes) ==
  LET peak == expanding_max(closes)
  IN  min([t \in 1..Len(closes) |-> Sub(Div(closes[t], peak[t]), One)])

\* C25: the max drawdown of risk_analytics is the largest peak-to-trough
\* decline of the close over the whole series, the first record counting as
\* a candidate peak.
C25_MaxDrawdownFromFirstRecord ==
  (AfterCall("risk_analytics") /\ len(df) >= 2) =>
    Eq(last.vals.max_drawdown, PeakToTrough(df["Close"]))

InPercentRange(x) == Ge(x, Zero) /\ Le(x, Num(100))

\* C26: the bull-market and bear-market percentages of
\* market_regime_analysis are each within [0, 100] and sum to 100, whatever
\* ran on the table before.
C26_RegimePercentages ==
  AfterCall("market_regime_analysis") =>
    /\ InPercentRange(last.vals.bull_percentage)
    /\ InPercentRange(last.vals.bear_percentage)
    /\ Eq(Add(last.vals.bull_percentage, last.vals.bear_percentage), Num(100))

\* C27: the printed metrics of the sweep are a function of the input series:
\* the tracking error and the information ratio performance_benchmarking has
\* printed are the ones every other run over the same series prints,
\* whatever that run draws.
C27_Deterministic ==
  AfterCall("performance_benchmarking") =>
    \A market_returns \in normal(Len(dropna(df["Daily_Return"]))) :
      \E again \in {performance_benchmarking(df, market_returns)} :
        /\ again.vals.tracking_error = last.vals.tracking_error
        /\ again.vals.information_ratio = last.vals.information_ratio

PredictionLabels ==
  {"GOLDEN CROSS - Bullish signal", "DEATH CROSS - Bearish signal",
   "Bullish trend continuation", "Bearish trend continuation"}

\* C28: on two or more records predictive_analytics returns one of the four
\* labels; when the 20-record or the 50-record average is undefined at the
\* last record (fewer than 50 records), or the two are equal there, the
\* label is the bearish continuation.
C28_PredictionLabel ==
  (AfterCall("predictive_analytics") /\ len(df) >= 2) =>
    /\ last.vals.prediction \in PredictionLabels
    /\ len(df) < SMA_50_WINDOW => IsNaN(Last(df["SMA_50"]))
    /\ (\/ IsNaN(Last(df["SMA_20"]))
        \/ IsNaN(Last(df["SMA_50"]))
        \/ Eq(Last(df["SMA_20"]), Last(df["SMA_50"])))
         => last.vals.prediction = "Bearish trend continuation"

C28_Witness ==
  /\ AfterCall("predictive_analytics")
  /\ len(df) >= SMA_50_WINDOW
  /\ ~IsConstant(df["Close"])
  /\ Eq(Last(df["SMA_20"]), Last(df["SMA_50"]))
  /\ last.vals.prediction = "Bearish trend continuation"

\* The same where the averages are undefined.
C28_WitnessUndefined ==
  /\ AfterCall("predictive_analytics")
  /\ len(df) >= SMA_20_WINDOW /\ len(df) < SMA_50_WINDOW
  /\ last.vals.prediction = "Bearish trend continuation"

BasicKeys ==
  {"data_period", "total_trading_days", "average_volume", "price_range",
   "total_return", "current_price", "volatility"}

\* The mapping of the frame built at import.
ImportedAnalytics == basic_analytics(create_sample_data(source))

\* C30: in app_with_analytics the module-level frame stays the one built at
\* import, and every /dashboard and /api/analytics answer carries the same
\* seven-key mapping, that of the imported frame.
C30_FrameNeverModified ==
  module = "app_with_analytics" =>
    /\ df = create_sample_data(source)
    /\ resp.route = "/api/analytics" =>
         DOMAIN resp.body = BasicKeys /\ resp.body = ImportedAnalytics
    /\ (resp.route = "/dashboard" /\ resp.status = 200) =>
         /\ DOMAIN resp.body.analytics = BasicKeys
         /\ resp.body.analytics = ImportedAnalytics

C30_Witness ==
  /\ module = "app_with_analytics"
  /\ resp.route = "/dashboard" /\ resp.status = 200
  /\ resp.body.analytics = ImportedAnalytics
  /\ len(df) >= 2

=============================================================================
